---- MODULE Spec2Model ----
(***************************************************************************)
(* Model of pkg/skel/skel.go: the CNI plugin skeleton.  One run of the     *)
(* model is one run of PluginMain: the environment scan and the read of    *)
(* standard input (getCmdArgsFromEnv), the about path, validateConfig,     *)
(* the switch on the command (checkVersionAndCall, the CHECK version       *)
(* rules, the VERSION encoder) and the exit of the auto-handling entry     *)
(* point.  pc = "returned" is the return of PluginMainWithError.           *)
(***************************************************************************)
EXTENDS Integers, Sequences, FiniteSets, TLC

\* longest list versionInfo.SupportedVersions() returns in the model
MaxSupported == 2

(***************************************************************************)
(* Strings and values of the environment                                   *)
(***************************************************************************)

\* strings.Join(elems, sep)
RECURSIVE Join(_, _)
Join(elems, sep) ==
    IF Len(elems) = 0 THEN ""
    ELSE IF Len(elems) = 1 THEN elems[1]
    ELSE elems[1] \o sep \o Join(Tail(elems), sep)

\* vars with CNI_NETNS required for DEL as it is for ADD and CHECK
varsNetnsForDel ==
    << [name |-> "CNI_COMMAND",     reqForCmd |-> {"ADD", "CHECK", "DEL"}],
       [name |-> "CNI_CONTAINERID", reqForCmd |-> {"ADD", "CHECK", "DEL"}],
       [name |-> "CNI_NETNS",       reqForCmd |-> {"ADD", "CHECK", "DEL"}],
       [name |-> "CNI_IFNAME",      reqForCmd |-> {"ADD", "CHECK", "DEL"}],
       [name |-> "CNI_ARGS",        reqForCmd |-> {}],
       [name |-> "CNI_PATH",        reqForCmd |-> {"ADD", "CHECK", "DEL"}] >>

\* the table of getCmdArgsFromEnv: the name of each variable, in order, and
\* its reqForCmd map (the commands mapped to true; a missing key reads false)
vars ==
    << [name |-> "CNI_COMMAND",     reqForCmd |-> {"ADD", "CHECK", "DEL"}],
       [name |-> "CNI_CONTAINERID", reqForCmd |-> {"ADD", "CHECK", "DEL"}],
       [name |-> "CNI_NETNS",       reqForCmd |-> {"ADD", "CHECK"}],
       [name |-> "CNI_IFNAME",      reqForCmd |-> {"ADD", "CHECK", "DEL"}],
       [name |-> "CNI_ARGS",        reqForCmd |-> {}],
       [name |-> "CNI_PATH",        reqForCmd |-> {"ADD", "CHECK", "DEL"}] >>

VarNames == {vars[i].name : i \in 1..Len(vars)}

\* the values CNI_COMMAND takes: unset, the four commands, an unknown one
Commands == {"", "ADD", "CHECK", "DEL", "VERSION", "FROB"}

\* the value each other variable has when it is set
SetValue ==
    [n \in VarNames \ {"CNI_COMMAND"} |->
        CASE n = "CNI_CONTAINERID" -> "some-container-id"
          [] n = "CNI_NETNS"       -> "/some/netns/path"
          [] n = "CNI_IFNAME"      -> "eth0"
          [] n = "CNI_ARGS"        -> "some;extra;args"
          [] n = "CNI_PATH"        -> "/some/cni/path"]

\* every environment: os.Getenv as a function of the name, with any command
\* and any subset of the other variables set
Environments ==
    {[n \in VarNames |->
        IF n = "CNI_COMMAND" THEN c ELSE IF n \in set THEN SetValue[n] ELSE ""] :
        c \in Commands, set \in SUBSET (VarNames \ {"CNI_COMMAND"})}

(***************************************************************************)
(* Version strings.  A version string is written as its dot-separated      *)
(* parts: "0.3.1" is <<"0", "3", "1">>.                                    *)
(***************************************************************************)

V030 == <<"0", "3", "0">>
V031 == <<"0", "3", "1">>
V040 == <<"0", "4", "0">>
V050 == <<"0", "5", "0">>
V100 == <<"1", "0", "0">>
\* "0.x.0": a part that is no number
VBad == <<"0", "x", "0">>

VersionStrings == {V030, V031, V040, V050, V100, VBad}

VersionText(v) == Join(v, ".")

\* the lists SupportedVersions() may return, in the plugin's declared order
SupportedLists == UNION {[1..n -> VersionStrings] : n \in 0..MaxSupported}

\* the decimal numerals the model's version parts use
Numeral == ("0" :> 0) @@ ("1" :> 1) @@ ("3" :> 3) @@ ("4" :> 4) @@ ("5" :> 5)

\* version.ParseVersion: three numeric parts, or an error
ParseVersion(v) ==
    IF Len(v) = 3 /\ \A i \in 1..3 : v[i] \in DOMAIN Numeral
    THEN [ok |-> TRUE,  major |-> Numeral[v[1]], minor |-> Numeral[v[2]], micro |-> Numeral[v[3]]]
    ELSE [ok |-> FALSE, major |-> 0, minor |-> 0, micro |-> 0]

\* version.GreaterThanOrEqualTo(version, otherVersion): (bool, error)
GreaterThanOrEqualTo(a, b) ==
    LET pa == ParseVersion(a)
        pb == ParseVersion(b)
    IN  IF ~pa.ok THEN [ok |-> FALSE, gtet |-> FALSE, msg |-> "invalid version " \o VersionText(a)]
        ELSE IF ~pb.ok THEN [ok |-> FALSE, gtet |-> FALSE, msg |-> "invalid version " \o VersionText(b)]
        ELSE [ok |-> TRUE,
              gtet |-> \/ pa.major > pb.major
                       \/ pa.major = pb.major /\ pa.minor > pb.minor
                       \/ pa.major = pb.major /\ pa.minor = pb.minor /\ pa.micro >= pb.micro,
              msg |-> ""]

\* a floor one release too low
CheckFloorLower == V030

\* the floor of the CHECK command: the literal "0.4.0"
CheckFloor == V040

(***************************************************************************)
(* Configuration bodies: the bytes of standard input, by what the JSON     *)
(* decoder sees in them.  kind "empty" (no bytes) and "garbage" are not    *)
(* JSON; "null", "array" and "number" are JSON values that are no object;  *)
(* an "object" has a name member and a cniVersion member (the members the  *)
(* decoder matches to the field, each absent, null, a number or a string). *)
(***************************************************************************)

AbsentName == [type |-> "absent", str |-> ""]
NameMembers ==
    {AbsentName, [type |-> "null", str |-> ""], [type |-> "number", str |-> ""],
     [type |-> "string", str |-> ""], [type |-> "string", str |-> "some-net"]}

AbsentVersion == [type |-> "absent", parts |-> <<>>]
VersionMembers ==
    {AbsentVersion} \cup {[type |-> "string", parts |-> v] : v \in VersionStrings}

EmptyBytes == [kind |-> "empty", name |-> AbsentName, cniVersion |-> AbsentVersion]

NonObjects ==
    {[kind |-> k, name |-> AbsentName, cniVersion |-> AbsentVersion] :
        k \in {"empty", "garbage", "null", "array", "number"}}

Objects ==
    {[kind |-> "object", name |-> n, cniVersion |-> c] :
        n \in NameMembers, c \in VersionMembers}

Bodies == NonObjects \cup Objects

SyntaxValid(jsonBytes) == jsonBytes.kind \notin {"empty", "garbage"}

\* what reading os.Stdin to its end gives: the bytes, or a read error
StdinStreams ==
    {[ok |-> TRUE, data |-> b, msg |-> ""] : b \in Bodies}
        \cup {[ok |-> FALSE, data |-> EmptyBytes, msg |-> "read failed"]}

\* bytes.NewReader(nil): reads end at once, without error
EmptyReader == [ok |-> TRUE, data |-> EmptyBytes, msg |-> ""]

(***************************************************************************)
(* types.Error                                                             *)
(***************************************************************************)

ErrMissingEnvironmentVariables == "ErrMissingEnvironmentVariables"
ErrFailedIO                    == "ErrFailedIO"
ErrFailedDecode                == "ErrFailedDecode"
ErrFailedEncode                == "ErrFailedEncode"
ErrInvalidNetworkConfig        == "ErrInvalidNetworkConfig"
ErrIncompatibleCNIVersion      == "ErrIncompatibleCNIVersion"
ErrUnknownCommand              == "ErrUnknownCommand"
ErrFailedPluginCall            == "ErrFailedPluginCall"

\* a nil *types.Error
NoError == [Code |-> "nil", Msg |-> "", Details |-> ""]

\* types.NewError(code, msg, details)
NewError(code, msg, details) == [Code |-> code, Msg |-> msg, Details |-> details]

\* one I/O operation or call of a collaborator, as the trace records it
Event(op, arg) == [op |-> op, arg |-> arg]

(***************************************************************************)
(* getCmdArgsFromEnv                                                       *)
(***************************************************************************)

\* the locals cmd, contID, netns, ifName, args, path before the scan
NoValues == [n \in VarNames |-> ""]

\* the loop over vars from entry i on: every variable is read; an empty one
\* is recorded when the command read so far requires it, or when it is
\* CNI_COMMAND itself
RECURSIVE ScanVars(_, _, _, _)
ScanVars(Getenv, i, vals, argsMissing) ==
    IF i > Len(vars) THEN [vals |-> vals, argsMissing |-> argsMissing]
    ELSE LET v     == vars[i]
             vals2 == [vals EXCEPT ![v.name] = Getenv[v.name]]
             cmdVal == vals2["CNI_COMMAND"]
             missing == IF vals2[v.name] = ""
                           /\ (cmdVal \in v.reqForCmd \/ v.name = "CNI_COMMAND")
                        THEN Append(argsMissing, v.name)
                        ELSE argsMissing
         IN  ScanVars(Getenv, i + 1, vals2, missing)

\* a nil *CmdArgs
NilCmdArgs ==
    [ptr |-> "nil", ContainerID |-> "", Netns |-> "", IfName |-> "", Args |-> "",
     Path |-> "", StdinData |-> EmptyBytes]

\* the Getenv calls of the scan, in order
ScanEvents == [i \in 1..Len(vars) |-> Event("Getenv", vars[i].name)]

\* getCmdArgsFromEnv reading the input a second time when the read failed
getCmdArgsFromEnvRetryRead(Getenv, Stdin) ==
    LET scan   == ScanVars(Getenv, 1, NoValues, <<>>)
        cmdVal == scan.vals["CNI_COMMAND"]
        reader == IF cmdVal = "VERSION" THEN EmptyReader ELSE Stdin
        source == IF cmdVal = "VERSION" THEN "empty reader" ELSE "stdin"
    IN  IF Len(scan.argsMissing) > 0
        THEN [cmd |-> "", cmdArgs |-> NilCmdArgs,
              err |-> NewError(ErrMissingEnvironmentVariables,
                               "required env variables ["
                                   \o Join(scan.argsMissing, ",") \o "] missing", ""),
              events |-> ScanEvents]
        ELSE IF ~reader.ok
        THEN [cmd |-> "", cmdArgs |-> NilCmdArgs,
              err |-> NewError(ErrFailedIO, "error reading from stdin: " \o reader.msg, ""),
              events |-> ScanEvents \o <<Event("ReadAll", source), Event("ReadAll", source)>>]
        ELSE [cmd |-> cmdVal,
              cmdArgs |-> [ptr |-> "set",
                           ContainerID |-> scan.vals["CNI_CONTAINERID"],
                           Netns       |-> scan.vals["CNI_NETNS"],
                           IfName      |-> scan.vals["CNI_IFNAME"],
                           Args        |-> scan.vals["CNI_ARGS"],
                           Path        |-> scan.vals["CNI_PATH"],
                           StdinData   |-> reader.data],
              err |-> NoError,
              events |-> Append(ScanEvents, Event("ReadAll", source))]

\* getCmdArgsFromEnv reading the input before it looks at what is missing
getCmdArgsFromEnvReadFirst(Getenv, Stdin) ==
    LET scan   == ScanVars(Getenv, 1, NoValues, <<>>)
        cmdVal == scan.vals["CNI_COMMAND"]
        reader == IF cmdVal = "VERSION" THEN EmptyReader ELSE Stdin
        source == IF cmdVal = "VERSION" THEN "empty reader" ELSE "stdin"
    IN  IF ~reader.ok
        THEN [cmd |-> "", cmdArgs |-> NilCmdArgs,
              err |-> NewError(ErrFailedIO, "error reading from stdin: " \o reader.msg, ""),
              events |-> Append(ScanEvents, Event("ReadAll", source))]
        ELSE IF Len(scan.argsMissing) > 0
        THEN [cmd |-> "", cmdArgs |-> NilCmdArgs,
              err |-> NewError(ErrMissingEnvironmentVariables,
                               "required env variables ["
                                   \o Join(scan.argsMissing, ",") \o "] missing", ""),
              events |-> Append(ScanEvents, Event("ReadAll", source))]
        ELSE [cmd |-> cmdVal,
              cmdArgs |-> [ptr |-> "set",
                           ContainerID |-> scan.vals["CNI_CONTAINERID"],
                           Netns       |-> scan.vals["CNI_NETNS"],
                           IfName      |-> scan.vals["CNI_IFNAME"],
                           Args        |-> scan.vals["CNI_ARGS"],
                           Path        |-> scan.vals["CNI_PATH"],
                           StdinData   |-> reader.data],
              err |-> NoError,
              events |-> Append(ScanEvents, Event("ReadAll", source))]

\* getCmdArgsFromEnv with the process's Getenv and Stdin: the command, the
\* arguments, the error, and the I/O it performed
getCmdArgsFromEnv(Getenv, Stdin) ==
    LET scan   == ScanVars(Getenv, 1, NoValues, <<>>)
        cmdVal == scan.vals["CNI_COMMAND"]
        reader == IF cmdVal = "VERSION" THEN EmptyReader ELSE Stdin
        source == IF cmdVal = "VERSION" THEN "empty reader" ELSE "stdin"
    IN  IF Len(scan.argsMissing) > 0
        THEN [cmd |-> "", cmdArgs |-> NilCmdArgs,
              err |-> NewError(ErrMissingEnvironmentVariables,
                               "required env variables ["
                                   \o Join(scan.argsMissing, ",") \o "] missing", ""),
              events |-> ScanEvents]
        ELSE IF ~reader.ok
        THEN [cmd |-> "", cmdArgs |-> NilCmdArgs,
              err |-> NewError(ErrFailedIO, "error reading from stdin: " \o reader.msg, ""),
              events |-> Append(ScanEvents, Event("ReadAll", source))]
        ELSE [cmd |-> cmdVal,
              cmdArgs |-> [ptr |-> "set",
                           ContainerID |-> scan.vals["CNI_CONTAINERID"],
                           Netns       |-> scan.vals["CNI_NETNS"],
                           IfName      |-> scan.vals["CNI_IFNAME"],
                           Args        |-> scan.vals["CNI_ARGS"],
                           Path        |-> scan.vals["CNI_PATH"],
                           StdinData   |-> reader.data],
              err |-> NoError,
              events |-> Append(ScanEvents, Event("ReadAll", source))]

(***************************************************************************)
(* validateConfig                                                          *)
(***************************************************************************)

\* json.Unmarshal(jsonBytes, &conf) with conf of type struct{Name string}:
\* bytes that are no JSON, a JSON value that is neither null nor an object,
\* and a name member that is neither null nor a string fail; otherwise Name
\* is the name member's string, or stays "" when it is absent or null
UnmarshalName(jsonBytes) ==
    IF ~SyntaxValid(jsonBytes)
    THEN [ok |-> FALSE, Name |-> "", msg |-> "invalid JSON syntax"]
    ELSE IF jsonBytes.kind \notin {"null", "object"}
    THEN [ok |-> FALSE, Name |-> "", msg |-> "json: cannot unmarshal " \o jsonBytes.kind]
    ELSE IF jsonBytes.name.type = "number"
    THEN [ok |-> FALSE, Name |-> "", msg |-> "json: cannot unmarshal number into name"]
    ELSE [ok |-> TRUE, Name |-> jsonBytes.name.str, msg |-> ""]

\* validateConfig without the test of the name
validateConfigNoNameCheck(jsonBytes) ==
    LET conf == UnmarshalName(jsonBytes)
    IN  IF ~conf.ok
        THEN [err |-> NewError(ErrFailedDecode,
                               "error unmarshall network config: " \o conf.msg, ""),
              events |-> <<Event("Unmarshal", "name")>>]
        ELSE [err |-> NoError, events |-> <<Event("Unmarshal", "name")>>]

\* validateConfig testing the name before the error of the decode
validateConfigNameFirst(jsonBytes) ==
    LET conf == UnmarshalName(jsonBytes)
    IN  IF conf.Name = ""
        THEN [err |-> NewError(ErrInvalidNetworkConfig, "missing network name", ""),
              events |-> <<Event("Unmarshal", "name"), Event("NameCheck", "")>>]
        ELSE IF ~conf.ok
        THEN [err |-> NewError(ErrFailedDecode,
                               "error unmarshall network config: " \o conf.msg, ""),
              events |-> <<Event("Unmarshal", "name"), Event("NameCheck", "")>>]
        ELSE [err |-> NoError,
              events |-> <<Event("Unmarshal", "name"), Event("NameCheck", "")>>]

validateConfig(jsonBytes) ==
    LET conf == UnmarshalName(jsonBytes)
    IN  IF ~conf.ok
        THEN [err |-> NewError(ErrFailedDecode,
                               "error unmarshall network config: " \o conf.msg, ""),
              events |-> <<Event("Unmarshal", "name")>>]
        ELSE IF conf.Name = ""
        THEN [err |-> NewError(ErrInvalidNetworkConfig, "missing network name", ""),
              events |-> <<Event("Unmarshal", "name"), Event("NameCheck", "")>>]
        ELSE [err |-> NoError,
              events |-> <<Event("Unmarshal", "name"), Event("NameCheck", "")>>]

(***************************************************************************)
(* The version collaborators of the dispatcher                             *)
(***************************************************************************)

\* ConfVersionDecoder.Decode(jsonBytes): the declared version, or an error
\* when the bytes are no JSON object or the version member is not there
Decode(jsonBytes) ==
    IF jsonBytes.kind = "object" /\ jsonBytes.cniVersion.type = "string"
    THEN [ok |-> TRUE,  version |-> jsonBytes.cniVersion.parts, msg |-> ""]
    ELSE [ok |-> FALSE, version |-> <<>>, msg |-> "decoding version from network config"]

InSupported(configVersion, supported) ==
    \E i \in 1..Len(supported) : supported[i] = configVersion

\* VersionReconciler.Check(configVersion, pluginVersionInfo): nil, or an
\* error whose Details() names the version and the supported set
Check(configVersion, supported) ==
    IF InSupported(configVersion, supported)
    THEN [ok |-> TRUE, details |-> ""]
    ELSE [ok |-> FALSE,
          details |-> "config is " \o VersionText(configVersion) \o ", plugin supports ["
                        \o Join([i \in 1..Len(supported) |-> VersionText(supported[i])], ", ")
                        \o "]"]

(***************************************************************************)
(* Handlers.  What a handler returns: nil, a plain error, a *types.Error,  *)
(* or a nil *types.Error held in the error interface.                      *)
(***************************************************************************)

HandlerErrors ==
    {NewError("ErrTryAgainLater", "busy", "retry in 5s"),
     NewError(ErrFailedPluginCall, "inner failure", "already typed")}

HandlerReturns ==
    {[kind |-> "nil", e |-> NoError, msg |-> ""],
     [kind |-> "typed nil", e |-> NoError, msg |-> ""],
     [kind |-> "plain", e |-> NoError, msg |-> "handler failed"]}
        \cup {[kind |-> "typed", e |-> e, msg |-> e.Msg] : e \in HandlerErrors}

\* no handler was called
NotCalled == [kind |-> "not called", e |-> NoError, msg |-> ""]

\* checkVersionAndCall without the type assertion: every error is wrapped
checkVersionAndCallWrapAll(cmdArgs, supported, toCall, ret) ==
    LET configVersion == Decode(cmdArgs.StdinData)
        verErr        == Check(configVersion.version, supported)
        decoded       == <<Event("Decode", "")>>
        checked       == Append(decoded, Event("Check", ""))
        called        == Append(checked, Event("Call", toCall))
    IN  IF ~configVersion.ok
        THEN [err |-> NewError(ErrFailedDecode, configVersion.msg, ""), events |-> decoded]
        ELSE IF ~verErr.ok
        THEN [err |-> NewError(ErrIncompatibleCNIVersion, "incompatible CNI versions",
                               verErr.details),
              events |-> checked]
        ELSE IF ret.kind # "nil"
        THEN [err |-> NewError(ErrFailedPluginCall, ret.msg, ""), events |-> called]
        ELSE [err |-> NoError, events |-> called]

\* checkVersionAndCall passing the handler's message as the details
checkVersionAndCallMsgAsDetails(cmdArgs, supported, toCall, ret) ==
    LET configVersion == Decode(cmdArgs.StdinData)
        verErr        == Check(configVersion.version, supported)
        decoded       == <<Event("Decode", "")>>
        checked       == Append(decoded, Event("Check", ""))
        called        == Append(checked, Event("Call", toCall))
    IN  IF ~configVersion.ok
        THEN [err |-> NewError(ErrFailedDecode, configVersion.msg, ""), events |-> decoded]
        ELSE IF ~verErr.ok
        THEN [err |-> NewError(ErrIncompatibleCNIVersion, "incompatible CNI versions",
                               verErr.details),
              events |-> checked]
        ELSE IF ret.kind \in {"typed", "typed nil"}
        THEN [err |-> ret.e, events |-> called]
        ELSE IF ret.kind = "plain"
        THEN [err |-> NewError(ErrFailedPluginCall, "", ret.msg), events |-> called]
        ELSE [err |-> NoError, events |-> called]

\* checkVersionAndCall calling the handler whatever the reconciler said
checkVersionAndCallIgnoreCheck(cmdArgs, supported, toCall, ret) ==
    LET configVersion == Decode(cmdArgs.StdinData)
        decoded       == <<Event("Decode", "")>>
        checked       == Append(decoded, Event("Check", ""))
        called        == Append(checked, Event("Call", toCall))
    IN  IF ~configVersion.ok
        THEN [err |-> NewError(ErrFailedDecode, configVersion.msg, ""), events |-> decoded]
        ELSE IF ret.kind \in {"typed", "typed nil"}
        THEN [err |-> ret.e, events |-> called]
        ELSE IF ret.kind = "plain"
        THEN [err |-> NewError(ErrFailedPluginCall, ret.msg, ""), events |-> called]
        ELSE [err |-> NoError, events |-> called]

\* checkVersionAndCall(cmdArgs, pluginVersionInfo, toCall): toCall is the
\* handler's name, ret what it returns when it is called
checkVersionAndCall(cmdArgs, supported, toCall, ret) ==
    LET configVersion == Decode(cmdArgs.StdinData)
        verErr        == Check(configVersion.version, supported)
        decoded       == <<Event("Decode", "")>>
        checked       == Append(decoded, Event("Check", ""))
        called        == Append(checked, Event("Call", toCall))
    IN  IF ~configVersion.ok
        THEN [err |-> NewError(ErrFailedDecode, configVersion.msg, ""), events |-> decoded]
        ELSE IF ~verErr.ok
        THEN [err |-> NewError(ErrIncompatibleCNIVersion, "incompatible CNI versions",
                               verErr.details),
              events |-> checked]
        ELSE IF ret.kind \in {"typed", "typed nil"}
        THEN [err |-> ret.e, events |-> called]
        ELSE IF ret.kind = "plain"
        THEN [err |-> NewError(ErrFailedPluginCall, ret.msg, ""), events |-> called]
        ELSE [err |-> NoError, events |-> called]

(***************************************************************************)
(* pluginMain                                                              *)
(***************************************************************************)

\* the about condition with the test of the about string inverted
AboutConditionInverted(e, Getenv, aboutText) ==
    /\ e.Code = ErrMissingEnvironmentVariables
    /\ Getenv["CNI_COMMAND"] = ""
    /\ aboutText = ""

\* the about condition without the second read of CNI_COMMAND
AboutConditionAnyMissing(e, Getenv, aboutText) ==
    /\ e.Code = ErrMissingEnvironmentVariables
    /\ aboutText # ""

\* the condition of the about path, evaluated left to right
AboutCondition(e, Getenv, aboutText) ==
    /\ e.Code = ErrMissingEnvironmentVariables
    /\ Getenv["CNI_COMMAND"] = ""
    /\ aboutText # ""

\* the Getenv call the about condition makes when its first conjunct holds
AboutEvents(e) ==
    IF e.Code = ErrMissingEnvironmentVariables
    THEN <<Event("Getenv", "CNI_COMMAND")>>
    ELSE <<>>

\* validation for every command, VERSION included
NeedsValidationAlways(c) == TRUE

\* validation for the commands that have a handler only
NeedsValidationKnownOnly(c) == c \in {"ADD", "CHECK", "DEL"}

\* the commands whose configuration validateConfig looks at
NeedsValidation(c) == c # "VERSION"

\* the loop of case "CHECK" calling the check handler itself at the first
\* supported version >= the declared one, without checkVersionAndCall
RECURSIVE CheckLoopDirectCall(_, _, _, _, _, _)
CheckLoopDirectCall(cmdArgs, configVersion, supported, i, ret, events) ==
    IF i > Len(supported)
    THEN [err |-> NewError(ErrIncompatibleCNIVersion,
                           "plugin version does not allow CHECK", ""),
          events |-> events, pluginVersion |-> <<>>]
    ELSE LET cmp  == GreaterThanOrEqualTo(supported[i], configVersion)
             evs  == Append(events, Event("GreaterThanOrEqualTo", VersionText(supported[i])))
         IN  IF ~cmp.ok
             THEN [err |-> NewError(ErrFailedDecode, cmp.msg, ""),
                   events |-> evs, pluginVersion |-> supported[i]]
             ELSE IF cmp.gtet
             THEN [err |-> IF ret.kind \in {"typed", "typed nil"} THEN ret.e
                           ELSE IF ret.kind = "plain"
                           THEN NewError(ErrFailedPluginCall, ret.msg, "")
                           ELSE NoError,
                   events |-> evs \o <<Event("Decode", ""), Event("Check", ""),
                                       Event("Call", "cmdCheck")>>,
                   pluginVersion |-> supported[i]]
             ELSE CheckLoopDirectCall(cmdArgs, configVersion, supported, i + 1, ret, evs)

\* the loop of case "CHECK" passing over a supported version that does not
\* parse
RECURSIVE CheckLoopSkipMalformed(_, _, _, _, _, _)
CheckLoopSkipMalformed(cmdArgs, configVersion, supported, i, ret, events) ==
    IF i > Len(supported)
    THEN [err |-> NewError(ErrIncompatibleCNIVersion,
                           "plugin version does not allow CHECK", ""),
          events |-> events, pluginVersion |-> <<>>]
    ELSE LET cmp  == GreaterThanOrEqualTo(supported[i], configVersion)
             evs  == Append(events, Event("GreaterThanOrEqualTo", VersionText(supported[i])))
             call == checkVersionAndCall(cmdArgs, supported, "cmdCheck", ret)
         IN  IF cmp.ok /\ cmp.gtet
             THEN [err |-> call.err, events |-> evs \o call.events,
                   pluginVersion |-> supported[i]]
             ELSE CheckLoopSkipMalformed(cmdArgs, configVersion, supported, i + 1, ret, evs)

\* the loop of case "CHECK" over SupportedVersions() from entry i on
RECURSIVE CheckLoop(_, _, _, _, _, _)
CheckLoop(cmdArgs, configVersion, supported, i, ret, events) ==
    IF i > Len(supported)
    THEN [err |-> NewError(ErrIncompatibleCNIVersion,
                           "plugin version does not allow CHECK", ""),
          events |-> events, pluginVersion |-> <<>>]
    ELSE LET cmp  == GreaterThanOrEqualTo(supported[i], configVersion)
             evs  == Append(events, Event("GreaterThanOrEqualTo", VersionText(supported[i])))
             call == checkVersionAndCall(cmdArgs, supported, "cmdCheck", ret)
         IN  IF ~cmp.ok
             THEN [err |-> NewError(ErrFailedDecode, cmp.msg, ""),
                   events |-> evs, pluginVersion |-> supported[i]]
             ELSE IF cmp.gtet
             THEN [err |-> call.err, events |-> evs \o call.events,
                   pluginVersion |-> supported[i]]
             ELSE CheckLoop(cmdArgs, configVersion, supported, i + 1, ret, evs)

\* case "CHECK" without the comparison with the floor
checkCommandNoFloor(cmdArgs, supported, ret) ==
    LET configVersion == Decode(cmdArgs.StdinData)
        decoded == <<Event("Decode", "")>>
    IN  IF ~configVersion.ok
        THEN [err |-> NewError(ErrFailedDecode, configVersion.msg, ""),
              events |-> decoded, pluginVersion |-> <<>>]
        ELSE CheckLoop(cmdArgs, configVersion.version, supported, 1, ret,
                       Append(decoded, Event("SupportedVersions", "")))

\* case "CHECK" of the switch
checkCommand(cmdArgs, supported, ret) ==
    LET configVersion == Decode(cmdArgs.StdinData)
        floor   == GreaterThanOrEqualTo(configVersion.version, CheckFloor)
        decoded == <<Event("Decode", "")>>
        floored == Append(decoded, Event("GreaterThanOrEqualTo", VersionText(CheckFloor)))
    IN  IF ~configVersion.ok
        THEN [err |-> NewError(ErrFailedDecode, configVersion.msg, ""),
              events |-> decoded, pluginVersion |-> <<>>]
        ELSE IF ~floor.ok
        THEN [err |-> NewError(ErrFailedDecode, floor.msg, ""),
              events |-> floored, pluginVersion |-> <<>>]
        ELSE IF ~floor.gtet
        THEN [err |-> NewError(ErrIncompatibleCNIVersion,
                               "config version does not allow CHECK", ""),
              events |-> floored, pluginVersion |-> <<>>]
        ELSE CheckLoop(cmdArgs, configVersion.version, supported, 1, ret,
                       Append(floored, Event("SupportedVersions", "")))

\* the handler an event sequence calls, if any
CallsHandler(events) == \E i \in 1..Len(events) : events[i].op = "Call"

(***************************************************************************)
(* State                                                                   *)
(***************************************************************************)

VARIABLES
    Getenv,         \* the process environment: name -> value
    Stdin,          \* what reading os.Stdin gives
    about,          \* the about string PluginMain was given
    pc,             \* where the run is
    cmd,            \* pluginMain's cmd
    cmdArgs,        \* pluginMain's cmdArgs
    err,            \* pluginMain's err after getCmdArgsFromEnv
    result,         \* the *types.Error pluginMain returns
    supported,      \* what versionInfo.SupportedVersions() gives, once consulted
    handlerRet,     \* what the called handler returned
    pluginVersion,  \* the loop variable of case "CHECK" where the loop ended
    trace,          \* the I/O operations and collaborator calls so far, in order
    exitStatus      \* the status os.Exit was called with; 0 without a call

vars_ == <<Getenv, Stdin, about, pc, cmd, cmdArgs, err, result, supported,
           handlerRet, pluginVersion, trace, exitStatus>>

AboutStrings == {"", "CNI plugin v1.0"}

Init ==
    /\ Getenv \in Environments
    /\ Stdin \in StdinStreams
    /\ about \in AboutStrings
    /\ pc = "start"
    /\ cmd = ""
    /\ cmdArgs = NilCmdArgs
    /\ err = NoError
    /\ result = NoError
    /\ supported = <<>>
    /\ handlerRet = NotCalled
    /\ pluginVersion = <<>>
    /\ trace = <<>>
    /\ exitStatus = 0

\* cmd, cmdArgs, err := t.getCmdArgsFromEnv()
GetCmdArgsFromEnv ==
    /\ pc = "start"
    /\ LET r == getCmdArgsFromEnv(Getenv, Stdin)
       IN  /\ cmd' = r.cmd
           /\ cmdArgs' = r.cmdArgs
           /\ err' = r.err
           /\ trace' = trace \o r.events
    /\ pc' = "extracted"
    /\ UNCHANGED <<Getenv, Stdin, about, result, supported, handlerRet,
                   pluginVersion, exitStatus>>

\* err != nil and the about condition holds: print about to Stderr, return nil
PrintAbout ==
    /\ pc = "extracted"
    /\ err # NoError
    /\ AboutCondition(err, Getenv, about)
    /\ trace' = trace \o AboutEvents(err) \o <<Event("Fprintln stderr", about)>>
    /\ result' = NoError
    /\ pc' = "returned"
    /\ UNCHANGED <<Getenv, Stdin, about, cmd, cmdArgs, err, supported, handlerRet,
                   pluginVersion, exitStatus>>

\* err != nil otherwise: return err
ReturnExtractError ==
    /\ pc = "extracted"
    /\ err # NoError
    /\ ~AboutCondition(err, Getenv, about)
    /\ trace' = trace \o AboutEvents(err)
    /\ result' = err
    /\ pc' = "returned"
    /\ UNCHANGED <<Getenv, Stdin, about, cmd, cmdArgs, err, supported, handlerRet,
                   pluginVersion, exitStatus>>

\* if cmd != "VERSION": validateConfig(cmdArgs.StdinData), return its error
ValidateConfig ==
    /\ pc = "extracted"
    /\ err = NoError
    /\ IF NeedsValidation(cmd)
       THEN LET v == validateConfig(cmdArgs.StdinData)
            IN  /\ trace' = trace \o v.events
                /\ result' = v.err
                /\ pc' = IF v.err # NoError THEN "returned" ELSE "validated"
       ELSE /\ pc' = "validated"
            /\ UNCHANGED <<trace, result>>
    /\ UNCHANGED <<Getenv, Stdin, about, cmd, cmdArgs, err, supported, handlerRet,
                   pluginVersion, exitStatus>>

\* case "ADD": err = t.checkVersionAndCall(cmdArgs, versionInfo, cmdAdd)
CmdAdd ==
    /\ pc = "validated"
    /\ cmd = "ADD"
    /\ \E sv \in SupportedLists, ret \in HandlerReturns :
         LET r == checkVersionAndCall(cmdArgs, sv, "cmdAdd", ret)
         IN  /\ supported' = sv
             /\ handlerRet' = IF CallsHandler(r.events) THEN ret ELSE NotCalled
             /\ trace' = trace \o r.events
             /\ result' = r.err
    /\ pc' = "returned"
    /\ UNCHANGED <<Getenv, Stdin, about, cmd, cmdArgs, err, pluginVersion, exitStatus>>

\* case "DEL": err = t.checkVersionAndCall(cmdArgs, versionInfo, cmdDel)
CmdDel ==
    /\ pc = "validated"
    /\ cmd = "DEL"
    /\ \E sv \in SupportedLists, ret \in HandlerReturns :
         LET r == checkVersionAndCall(cmdArgs, sv, "cmdDel", ret)
         IN  /\ supported' = sv
             /\ handlerRet' = IF CallsHandler(r.events) THEN ret ELSE NotCalled
             /\ trace' = trace \o r.events
             /\ result' = r.err
    /\ pc' = "returned"
    /\ UNCHANGED <<Getenv, Stdin, about, cmd, cmdArgs, err, pluginVersion, exitStatus>>

\* case "CHECK"
CmdCheck ==
    /\ pc = "validated"
    /\ cmd = "CHECK"
    /\ \E sv \in SupportedLists, ret \in HandlerReturns :
         LET r == checkCommand(cmdArgs, sv, ret)
         IN  /\ supported' = sv
             /\ handlerRet' = IF CallsHandler(r.events) THEN ret ELSE NotCalled
             /\ pluginVersion' = r.pluginVersion
             /\ trace' = trace \o r.events
             /\ result' = r.err
    /\ pc' = "returned"
    /\ UNCHANGED <<Getenv, Stdin, about, cmd, cmdArgs, err, exitStatus>>

\* case "VERSION" dropping the error of the encoder
CmdVersionIgnoreError ==
    /\ pc = "validated"
    /\ cmd = "VERSION"
    /\ \E encoded \in BOOLEAN :
         /\ trace' = Append(trace, Event("Encode stdout",
                                          IF encoded THEN "ok" ELSE "write failed"))
         /\ result' = NoError
    /\ pc' = "returned"
    /\ UNCHANGED <<Getenv, Stdin, about, cmd, cmdArgs, err, supported, handlerRet,
                   pluginVersion, exitStatus>>

\* case "VERSION": versionInfo.Encode(t.Stdout)
CmdVersion ==
    /\ pc = "validated"
    /\ cmd = "VERSION"
    /\ \E encoded \in BOOLEAN :
         /\ trace' = Append(trace, Event("Encode stdout",
                                          IF encoded THEN "ok" ELSE "write failed"))
         /\ result' = IF encoded THEN NoError
                      ELSE NewError(ErrFailedEncode, "write failed", "")
    /\ pc' = "returned"
    /\ UNCHANGED <<Getenv, Stdin, about, cmd, cmdArgs, err, supported, handlerRet,
                   pluginVersion, exitStatus>>

\* default
CmdUnknown ==
    /\ pc = "validated"
    /\ cmd \notin {"ADD", "CHECK", "DEL", "VERSION"}
    /\ result' = NewError(ErrUnknownCommand, "unknown CNI_COMMAND: " \o cmd, "")
    /\ pc' = "returned"
    /\ UNCHANGED <<Getenv, Stdin, about, cmd, cmdArgs, err, supported, handlerRet,
                   pluginVersion, trace, exitStatus>>

(***************************************************************************)
(* PluginMain                                                              *)
(***************************************************************************)

\* the error exit printing again when the print failed
ExitWithErrorRetry ==
    /\ pc = "returned"
    /\ result # NoError
    /\ \E printed \in BOOLEAN :
         trace' = trace \o <<Event("Print stdout", result.Code)>>
                        \o (IF printed THEN <<>>
                            ELSE <<Event("log.Print", ""), Event("Print stdout", result.Code)>>)
                        \o <<Event("os.Exit", "1")>>
    /\ exitStatus' = 1
    /\ pc' = "exited"
    /\ UNCHANGED <<Getenv, Stdin, about, cmd, cmdArgs, err, result, supported,
                   handlerRet, pluginVersion>>

\* e != nil: e.Print(), log a failure of it, os.Exit(1)
ExitWithError ==
    /\ pc = "returned"
    /\ result # NoError
    /\ \E printed \in BOOLEAN :
         trace' = trace \o <<Event("Print stdout", result.Code)>>
                        \o (IF printed THEN <<>> ELSE <<Event("log.Print", "")>>)
                        \o <<Event("os.Exit", "1")>>
    /\ exitStatus' = 1
    /\ pc' = "exited"
    /\ UNCHANGED <<Getenv, Stdin, about, cmd, cmdArgs, err, result, supported,
                   handlerRet, pluginVersion>>

\* e == nil: PluginMain returns
ReturnToCaller ==
    /\ pc = "returned"
    /\ result = NoError
    /\ pc' = "exited"
    /\ UNCHANGED <<Getenv, Stdin, about, cmd, cmdArgs, err, result, supported,
                   handlerRet, pluginVersion, trace, exitStatus>>

Next ==
    \/ GetCmdArgsFromEnv
    \/ PrintAbout
    \/ ReturnExtractError
    \/ ValidateConfig
    \/ CmdAdd
    \/ CmdCheck
    \/ CmdDel
    \/ CmdVersion
    \/ CmdUnknown
    \/ ExitWithError
    \/ ReturnToCaller

Spec == Init /\ [][Next]_vars_

(***************************************************************************)
(* Properties                                                              *)
(***************************************************************************)

\* pluginMain has returned
Returned == pc \in {"returned", "exited"}

\* getCmdArgsFromEnv has returned
Extracted == pc # "start"

HasEvent(op) == \E i \in 1..Len(trace) : trace[i].op = op

CountEvent(op, arg) == Cardinality({i \in 1..Len(trace) : trace[i] = Event(op, arg)})

\* the caller's standard input was read
StdinWasRead == \E i \in 1..Len(trace) : trace[i] = Event("ReadAll", "stdin")

\* something was written to standard output
StdoutWritten == HasEvent("Encode stdout") \/ HasEvent("Print stdout")

\* the version the configuration declares
Declared(jsonBytes) == jsonBytes.cniVersion.parts

\* an object whose name is a non-empty string: it passes the shape validation
WellFormedBody(jsonBytes) ==
    /\ jsonBytes.kind = "object"
    /\ jsonBytes.name.type = "string"
    /\ jsonBytes.name.str # ""

\* the requirement table of the specification, section 4.3: the parameters
\* each command requires
RequiredBy ==
    [c \in {"ADD", "CHECK", "DEL"} |->
        IF c = "DEL"
        THEN {"CNI_COMMAND", "CNI_CONTAINERID", "CNI_IFNAME", "CNI_PATH"}
        ELSE {"CNI_COMMAND", "CNI_CONTAINERID", "CNI_NETNS", "CNI_IFNAME", "CNI_PATH"}]

TableOrder ==
    <<"CNI_COMMAND", "CNI_CONTAINERID", "CNI_NETNS", "CNI_IFNAME", "CNI_ARGS", "CNI_PATH">>

\* the empty variables command c requires, in table order
EmptyRequired(c) ==
    LET Wanted(n) == Getenv[n] = "" /\ n \in RequiredBy[c]
    IN  SelectSeq(TableOrder, Wanted)

\* C1: for ADD, CHECK and DEL, extraction fails with
\* MissingEnvironmentVariables exactly when a variable the requirement table
\* requires for the command is empty, and the message lists exactly the empty
\* required variables, comma-joined, in table order; an empty optional
\* variable is not listed and does not make extraction fail.
C1_MissingExactlyRequired ==
    (Extracted /\ Getenv["CNI_COMMAND"] \in {"ADD", "CHECK", "DEL"}) =>
        LET missing == EmptyRequired(Getenv["CNI_COMMAND"])
        IN  /\ (err.Code = ErrMissingEnvironmentVariables) <=> (missing # <<>>)
            /\ missing # <<>> =>
                 err.Msg = "required env variables [" \o Join(missing, ",") \o "] missing"
            /\ missing = <<>> => err.Code \in {"nil", ErrFailedIO}

C1_Witness ==
    /\ pc = "extracted"
    /\ Getenv["CNI_COMMAND"] = "DEL"
    /\ Getenv["CNI_NETNS"] = ""
    /\ Getenv["CNI_ARGS"] = ""
    /\ err = NewError(ErrMissingEnvironmentVariables,
                      "required env variables [CNI_CONTAINERID,CNI_PATH] missing", "")

\* C2: with CNI_COMMAND=VERSION, whatever the other variables and standard
\* input are, extraction reports no error, the caller's input is never read
\* and the request body is empty, the configuration is not validated, and the
\* result is never MissingEnvironmentVariables, FailedIO, FailedDecode or
\* InvalidNetworkConfig.
C2_VersionNeedsNothing ==
    (Extracted /\ Getenv["CNI_COMMAND"] = "VERSION") =>
        /\ err = NoError
        /\ cmd = "VERSION"
        /\ cmdArgs.StdinData = EmptyBytes
        /\ ~StdinWasRead
        /\ ~HasEvent("Unmarshal")
        /\ ~HasEvent("NameCheck")
        /\ result.Code \notin {ErrMissingEnvironmentVariables, ErrFailedIO,
                               ErrFailedDecode, ErrInvalidNetworkConfig}

C2_Witness ==
    /\ pc = "exited"
    /\ Getenv["CNI_COMMAND"] = "VERSION"
    /\ \A n \in VarNames \ {"CNI_COMMAND"} : Getenv[n] = ""
    /\ ~Stdin.ok
    /\ result = NoError
    /\ HasEvent("Encode stdout")

\* a CHECK request that reached the switch with the supported versions
\* ["0.3.0", "0.4.0"] and a configuration declaring version v
CheckOf(v) ==
    /\ Returned
    /\ cmd = "CHECK"
    /\ WellFormedBody(cmdArgs.StdinData)
    /\ supported = <<V030, V040>>
    /\ cmdArgs.StdinData.cniVersion.type = "string"
    /\ Declared(cmdArgs.StdinData) = v

\* C3 as the specification states it: declaring "0.3.1" selects "0.4.0", the
\* check handler is invoked and the dispatch succeeds; declaring "0.5.0" fails
\* with IncompatibleVersion without the handler.
C3_AsStated ==
    /\ CheckOf(V031) =>
         /\ handlerRet # NotCalled
         /\ pluginVersion = V040
         /\ handlerRet.kind = "nil" => result = NoError
    /\ CheckOf(V050) =>
         /\ result.Code = ErrIncompatibleCNIVersion
         /\ handlerRet = NotCalled

\* C3, amended: with supported versions ["0.3.0", "0.4.0"], a CHECK whose
\* configuration declares "0.3.1" fails with IncompatibleVersion at the floor
\* (0.3.1 is below 0.4.0), before the supported versions are consulted and
\* without the check handler; one declaring "0.5.0" fails with
\* IncompatibleVersion because no supported version is >= it, without the
\* check handler.
C3_BelowFloorRejected ==
    /\ CheckOf(V031) =>
         /\ result = NewError(ErrIncompatibleCNIVersion,
                              "config version does not allow CHECK", "")
         /\ handlerRet = NotCalled
         /\ ~HasEvent("SupportedVersions")
         /\ ~HasEvent("Call")
    /\ CheckOf(V050) =>
         /\ result = NewError(ErrIncompatibleCNIVersion,
                              "plugin version does not allow CHECK", "")
         /\ handlerRet = NotCalled
         /\ ~HasEvent("Call")

C3_Witness ==
    /\ CheckOf(V031)
    /\ pc = "returned"
    /\ result.Code = ErrIncompatibleCNIVersion
    /\ HasEvent("GreaterThanOrEqualTo")

\* C4: a CHECK whose well-formed configuration declares a well-formed version
\* below the floor 0.4.0 returns IncompatibleVersion and never invokes the
\* check handler, whatever versions the plugin supports, the declared one
\* included.
C4_FloorAlwaysRejects ==
    (/\ Returned
     /\ cmd = "CHECK"
     /\ WellFormedBody(cmdArgs.StdinData)
     /\ cmdArgs.StdinData.cniVersion.type = "string"
     /\ Declared(cmdArgs.StdinData) \in {V030, V031}) =>
        /\ result.Code = ErrIncompatibleCNIVersion
        /\ handlerRet = NotCalled
        /\ ~HasEvent("Call")

C4_Witness ==
    /\ pc = "returned"
    /\ cmd = "CHECK"
    /\ WellFormedBody(cmdArgs.StdinData)
    /\ Declared(cmdArgs.StdinData) = V030
    /\ supported = <<V040, V030>>
    /\ result.Code = ErrIncompatibleCNIVersion

\* C5: for ADD, CHECK and DEL, when the handler was called: an error it
\* returned as a *types.Error is returned as it is, with its code, message
\* and details; any other error is returned as one FailedHandlerCall error
\* made from the handler's message, not wrapped again; and no error (a nil
\* *types.Error in the interface included) is returned as no error.
C5_HandlerResultNormalised ==
    (Returned /\ handlerRet # NotCalled) =>
        /\ cmd \in {"ADD", "CHECK", "DEL"}
        /\ handlerRet.kind = "typed" => result = handlerRet.e
        /\ handlerRet.kind = "plain" =>
             /\ result.Code = ErrFailedPluginCall
             /\ handlerRet.msg \in {result.Msg, result.Details}
             /\ "" \in {result.Msg, result.Details}
        /\ handlerRet.kind \in {"nil", "typed nil"} => result = NoError

C5_Witness ==
    /\ pc = "returned"
    /\ cmd = "CHECK"
    /\ handlerRet.kind = "typed"
    /\ handlerRet.e = NewError(ErrFailedPluginCall, "inner failure", "already typed")
    /\ result = handlerRet.e

\* C6 as the specification states it: the FailedHandlerCall error made from a
\* handler's plain error carries the handler's message in its detail.
C6_AsStated ==
    (Returned /\ handlerRet.kind = "plain") => result.Details = handlerRet.msg

\* C6, amended: the FailedHandlerCall error made from a handler's plain error
\* carries the handler's message in its message field, and its detail is
\* empty.
C6_MessageInMsg ==
    (Returned /\ handlerRet.kind = "plain") =>
        /\ result.Code = ErrFailedPluginCall
        /\ result.Msg = handlerRet.msg
        /\ result.Details = ""

C6_Witness ==
    /\ pc = "returned"
    /\ cmd = "ADD"
    /\ handlerRet.kind = "plain"
    /\ result = NewError(ErrFailedPluginCall, "handler failed", "")

\* a request other than VERSION that passed extraction and was validated
ValidationRan ==
    /\ pc \notin {"start", "extracted"}
    /\ err = NoError
    /\ cmd # "VERSION"

\* the body has no name, or an empty one
LacksName(jsonBytes) ==
    \/ jsonBytes.kind # "object"
    \/ jsonBytes.name.type = "absent"
    \/ jsonBytes.name.type = "string" /\ jsonBytes.name.str = ""

\* C7 as the specification states it: every body that is syntactically valid
\* JSON and lacks a non-empty name, a JSON object or not, yields
\* InvalidNetworkConfig.
C7_AsStated ==
    (ValidationRan /\ SyntaxValid(cmdArgs.StdinData) /\ LacksName(cmdArgs.StdinData)) =>
        result.Code = ErrInvalidNetworkConfig

\* C7, amended: for every command other than VERSION that passes extraction,
\* a body that is a JSON object or the JSON value null, and whose name member
\* is absent, null or the empty string, yields InvalidNetworkConfig and never
\* FailedDecode, whatever its other members are; a syntactically valid body
\* that is neither an object nor null yields FailedDecode.
C7_ObjectWithoutName ==
    ValidationRan =>
        LET body == cmdArgs.StdinData
        IN  /\ (/\ body.kind \in {"object", "null"}
                /\ \/ body.name.type \in {"absent", "null"}
                   \/ body.name.type = "string" /\ body.name.str = "") =>
                  result = NewError(ErrInvalidNetworkConfig, "missing network name", "")
            /\ (SyntaxValid(body) /\ body.kind \notin {"object", "null"}) =>
                  result.Code = ErrFailedDecode

C7_Witness ==
    /\ pc = "returned"
    /\ cmd = "DEL"
    /\ cmdArgs.StdinData.kind = "object"
    /\ cmdArgs.StdinData.name.type = "absent"
    /\ Declared(cmdArgs.StdinData) = V040
    /\ result.Code = ErrInvalidNetworkConfig

\* C8: for every command other than VERSION that passes extraction, a body
\* that is not syntactically valid JSON yields FailedDecode from the decode of
\* validateConfig itself: the name is not checked, no version is decoded,
\* compared or reconciled, no handler runs, and neither InvalidNetworkConfig
\* nor IncompatibleVersion results.
C8_BadJsonFailsFirst ==
    (ValidationRan /\ ~SyntaxValid(cmdArgs.StdinData)) =>
        /\ Returned
        /\ result.Code = ErrFailedDecode
        /\ handlerRet = NotCalled
        /\ CountEvent("Unmarshal", "name") = 1
        /\ \A op \in {"NameCheck", "Decode", "GreaterThanOrEqualTo", "SupportedVersions",
                      "Check", "Call", "Encode stdout"} : ~HasEvent(op)

C8_Witness ==
    /\ pc = "returned"
    /\ cmd = "ADD"
    /\ cmdArgs.StdinData.kind = "garbage"
    /\ result.Code = ErrFailedDecode
    /\ trace[Len(trace)] = Event("Unmarshal", "name")

\* C9: with CNI_COMMAND empty and an about string given, the dispatcher
\* writes the about string to the diagnostic stream and returns no error; it
\* reads no standard input, writes no standard output and calls no handler,
\* and PluginMain ends with status 0.
C9_AboutPath ==
    (Returned /\ Getenv["CNI_COMMAND"] = "" /\ about # "") =>
        /\ result = NoError
        /\ CountEvent("Fprintln stderr", about) = 1
        /\ ~HasEvent("ReadAll")
        /\ ~StdoutWritten
        /\ ~HasEvent("Call")
        /\ handlerRet = NotCalled
        /\ exitStatus = 0
        /\ ~HasEvent("os.Exit")

C9_Witness ==
    /\ pc = "exited"
    /\ Getenv["CNI_COMMAND"] = ""
    /\ Getenv["CNI_PATH"] # ""
    /\ about # ""
    /\ trace[Len(trace)] = Event("Fprintln stderr", about)
    /\ exitStatus = 0

\* an unknown command: not empty and none of the four
UnknownCommand == Getenv["CNI_COMMAND"] \notin {"", "ADD", "CHECK", "DEL", "VERSION"}

\* C10 as the specification states it: an unknown command returns
\* UnknownOperation naming it, whatever the other variables and the body are.
C10_AsStated ==
    (Returned /\ UnknownCommand) =>
        /\ result = NewError(ErrUnknownCommand,
                             "unknown CNI_COMMAND: " \o Getenv["CNI_COMMAND"], "")
        /\ handlerRet = NotCalled

\* C10, amended: an unknown command calls no handler, whatever the other five
\* variables hold, and returns UnknownOperation naming it when standard input
\* was read and the body passed the shape validation; when the read fails it
\* returns FailedIO, when the body does not decode FailedDecode, and when the
\* body has no name InvalidNetworkConfig.
C10_UnknownAfterValidation ==
    (Returned /\ UnknownCommand) =>
        /\ handlerRet = NotCalled
        /\ ~HasEvent("Call")
        /\ err.Code # ErrMissingEnvironmentVariables
        /\ ~Stdin.ok => result.Code = ErrFailedIO
        /\ (Stdin.ok /\ WellFormedBody(Stdin.data)) =>
             result = NewError(ErrUnknownCommand,
                               "unknown CNI_COMMAND: " \o Getenv["CNI_COMMAND"], "")
        /\ (Stdin.ok /\ ~WellFormedBody(Stdin.data)) =>
             result.Code \in {ErrFailedDecode, ErrInvalidNetworkConfig}
        /\ (Stdin.ok /\ ~SyntaxValid(Stdin.data)) => result.Code = ErrFailedDecode

C10_Witness ==
    /\ pc = "returned"
    /\ Getenv["CNI_COMMAND"] = "FROB"
    /\ \A n \in VarNames \ {"CNI_COMMAND"} : Getenv[n] = ""
    /\ result = NewError(ErrUnknownCommand, "unknown CNI_COMMAND: FROB", "")

\* the places of the trace where operation op is
Positions(op) == {i \in 1..Len(trace) : trace[i].op = op}

\* C11: PluginMain ends with status 1 exactly when pluginMain returned an
\* error; the error is then printed to standard output exactly once, before
\* the exit, a failure of the print being logged once and not retried; when
\* pluginMain returned no error (the about path included) PluginMain prints
\* nothing, does not call os.Exit, and the status is 0.
C11_ExitStatus ==
    pc = "exited" =>
        /\ (exitStatus = 1) <=> (result # NoError)
        /\ exitStatus \in {0, 1}
        /\ result # NoError =>
             /\ Positions("Print stdout") # {}
             /\ \A i \in Positions("Print stdout") : trace[i].arg = result.Code
             /\ Cardinality(Positions("Print stdout")) = 1
             /\ Cardinality(Positions("log.Print")) <= 1
             /\ trace[Len(trace)] = Event("os.Exit", "1")
             /\ Cardinality(Positions("os.Exit")) = 1
             /\ \A i \in Positions("Print stdout") \cup Positions("log.Print") :
                    \A j \in Positions("os.Exit") : i < j
             /\ \A i \in Positions("Print stdout") :
                    \A j \in Positions("log.Print") : i < j
        /\ result = NoError =>
             /\ ~HasEvent("Print stdout")
             /\ ~HasEvent("log.Print")
             /\ ~HasEvent("os.Exit")

C11_Witness ==
    /\ pc = "exited"
    /\ exitStatus = 1
    /\ result.Code = ErrFailedEncode
    /\ HasEvent("log.Print")
    /\ Cardinality(Positions("Print stdout")) = 1

\* the reads before the writes: every Getenv before the ReadAll, and both
\* before the writes of pluginMain to the output and diagnostic streams
ReadsBeforeWrites ==
    /\ \A i \in Positions("Getenv") : \A j \in Positions("ReadAll") : i < j
    /\ \A i \in Positions("Getenv") \cup Positions("ReadAll") :
           \A j \in Positions("Encode stdout") \cup Positions("Fprintln stderr") : i < j

\* C12 as the specification states it: in a run of the dispatcher every
\* environment variable is read at most once, the input is read at most once,
\* the output and the diagnostic stream are written at most once, in the
\* order environment reads, input read, output write.
C12_AsStated ==
    /\ \A n \in VarNames : CountEvent("Getenv", n) <= 1
    /\ Cardinality(Positions("ReadAll")) <= 1
    /\ Cardinality(Positions("Encode stdout")) <= 1
    /\ Cardinality(Positions("Fprintln stderr")) <= 1
    /\ ReadsBeforeWrites

\* C12, amended: in a run of the dispatcher the input is read at most once
\* and the output and the diagnostic stream are written at most once, in the
\* order environment reads, input read, output write, with no retry; every
\* environment variable is read once by the scan, and CNI_COMMAND alone is
\* read a second time, exactly when extraction failed with
\* MissingEnvironmentVariables (the test of the about path), in which case
\* the input is not read.
C12_IOOnceInOrder ==
    /\ \A n \in VarNames \ {"CNI_COMMAND"} : CountEvent("Getenv", n) <= 1
    /\ Extracted => \A n \in VarNames : CountEvent("Getenv", n) >= 1
    /\ CountEvent("Getenv", "CNI_COMMAND") <= 2
    /\ Returned =>
         ((CountEvent("Getenv", "CNI_COMMAND") = 2)
            <=> (err.Code = ErrMissingEnvironmentVariables))
    /\ CountEvent("Getenv", "CNI_COMMAND") = 2 => ~HasEvent("ReadAll")
    /\ Cardinality(Positions("ReadAll")) <= 1
    /\ Cardinality(Positions("Encode stdout")) <= 1
    /\ Cardinality(Positions("Fprintln stderr")) <= 1
    /\ ReadsBeforeWrites

C12_Witness ==
    /\ pc = "returned"
    /\ Getenv["CNI_COMMAND"] = "ADD"
    /\ Getenv["CNI_IFNAME"] = ""
    /\ about # ""
    /\ CountEvent("Getenv", "CNI_COMMAND") = 2
    /\ result.Code = ErrMissingEnvironmentVariables

\* the handler of each command
HandlerOf == [c \in {"ADD", "CHECK", "DEL"} |->
                 IF c = "ADD" THEN "cmdAdd" ELSE IF c = "CHECK" THEN "cmdCheck" ELSE "cmdDel"]

\* the declared version is one of the supported versions
DeclaredIsSupported ==
    \E i \in 1..Len(supported) : supported[i] = Declared(cmdArgs.StdinData)

\* C13: in every run at most one handler is called, at most once, and it is
\* the handler of the command; it is called only after extraction succeeded
\* (the input was read), the configuration passed the shape validation, the
\* version was decoded and the reconciler accepted it, in that order, the
\* reconciler's acceptance being the last step before the call.  For ADD and
\* DEL a version the reconciler rejects yields IncompatibleVersion and a
\* version that does not decode yields FailedDecode, both without the handler.
C13_OneHandlerAfterAllChecks ==
    /\ Cardinality(Positions("Call")) <= 1
    /\ (handlerRet # NotCalled) <=> HasEvent("Call")
    /\ \A k \in Positions("Call") :
         /\ Getenv["CNI_COMMAND"] \in {"ADD", "CHECK", "DEL"}
         /\ trace[k].arg = HandlerOf[Getenv["CNI_COMMAND"]]
         /\ err = NoError
         /\ WellFormedBody(cmdArgs.StdinData)
         /\ cmdArgs.StdinData.cniVersion.type = "string"
         /\ DeclaredIsSupported
         /\ \E r \in Positions("ReadAll"), u \in Positions("Unmarshal"),
               n \in Positions("NameCheck"), d \in Positions("Decode"),
               c \in Positions("Check") :
                /\ r < u /\ u < n /\ n < d /\ d < c
                /\ c = k - 1
         /\ \A i \in Positions("Getenv") : i < k
    /\ (Returned /\ cmd \in {"ADD", "DEL"} /\ WellFormedBody(cmdArgs.StdinData)) =>
         /\ cmdArgs.StdinData.cniVersion.type = "absent" =>
              /\ result.Code = ErrFailedDecode
              /\ handlerRet = NotCalled
              /\ ~HasEvent("Check")
         /\ (cmdArgs.StdinData.cniVersion.type = "string" /\ ~DeclaredIsSupported) =>
              /\ result.Code = ErrIncompatibleCNIVersion
              /\ result.Msg = "incompatible CNI versions"
              /\ handlerRet = NotCalled

C13_Witness ==
    /\ pc = "returned"
    /\ cmd = "DEL"
    /\ Getenv["CNI_NETNS"] = ""
    /\ handlerRet.kind = "nil"
    /\ trace[Len(trace)] = Event("Call", "cmdDel")
    /\ result = NoError

\* C14: for VERSION the dispatcher calls the encoder of the version
\* information on the output stream exactly once and calls no handler, no
\* version decoder, no comparison and no reconciler; the result is
\* FailedEncode when the encoder fails and no error otherwise.
C14_VersionEncodesOnce ==
    (Returned /\ Getenv["CNI_COMMAND"] = "VERSION") =>
        /\ Cardinality(Positions("Encode stdout")) = 1
        /\ \A op \in {"Call", "Decode", "Check", "GreaterThanOrEqualTo",
                      "SupportedVersions"} : ~HasEvent(op)
        /\ handlerRet = NotCalled
        /\ \A i \in Positions("Encode stdout") :
             /\ trace[i].arg = "ok" => result = NoError
             /\ trace[i].arg # "ok" =>
                  /\ result.Code = ErrFailedEncode
                  /\ result.Msg = trace[i].arg

C14_Witness ==
    /\ pc = "returned"
    /\ Getenv["CNI_COMMAND"] = "VERSION"
    /\ Getenv["CNI_ARGS"] # ""
    /\ result.Code = ErrFailedEncode
    /\ trace[Len(trace)] = Event("Encode stdout", "write failed")

\* C15: standard input is read only after the scan of all six variables found
\* nothing missing: an extraction that fails with MissingEnvironmentVariables
\* has not read it, and a read comes right after the six reads of the scan.
\* When the read fails extraction returns FailedIO, and the dispatcher returns
\* that error as it is, without validation, version decoding, reconciliation
\* or a handler call.
C15_ReadAfterScan ==
    /\ err.Code = ErrMissingEnvironmentVariables => ~HasEvent("ReadAll")
    /\ \A j \in Positions("ReadAll") :
         /\ j = Len(vars) + 1
         /\ \A i \in 1..Len(vars) : trace[i] = Event("Getenv", TableOrder[i])
    /\ (/\ Extracted
        /\ Getenv["CNI_COMMAND"] \notin {"", "VERSION"}
        /\ \/ Getenv["CNI_COMMAND"] \notin DOMAIN RequiredBy
           \/ EmptyRequired(Getenv["CNI_COMMAND"]) = <<>>
        /\ ~Stdin.ok) =>
          /\ err = NewError(ErrFailedIO, "error reading from stdin: " \o Stdin.msg, "")
          /\ trace[Len(vars) + 1] = Event("ReadAll", "stdin")
          /\ Returned
               => /\ result = err
                  /\ handlerRet = NotCalled
                  /\ \A op \in {"Unmarshal", "NameCheck", "Decode", "Check",
                                "GreaterThanOrEqualTo", "SupportedVersions", "Call",
                                "Encode stdout", "Fprintln stderr"} : ~HasEvent(op)

C15_Witness ==
    /\ pc = "returned"
    /\ Getenv["CNI_COMMAND"] = "CHECK"
    /\ ~Stdin.ok
    /\ result.Code = ErrFailedIO
    /\ trace[Len(trace)] = Event("ReadAll", "stdin")

\* a version string of three numbers, and its place in the order of versions
WellFormedVersion(v) == v \in {V030, V031, V040, V050, V100}

VersionKey(v) == Numeral[v[1]] * 10000 + Numeral[v[2]] * 100 + Numeral[v[3]]

AtLeast(a, b) ==
    WellFormedVersion(a) /\ WellFormedVersion(b) /\ VersionKey(a) >= VersionKey(b)

\* a CHECK request that reached the switch with a declared version
CheckReached ==
    /\ Returned
    /\ cmd = "CHECK"
    /\ WellFormedBody(cmdArgs.StdinData)
    /\ cmdArgs.StdinData.cniVersion.type = "string"

\* some supported version is >= the declared version
SomeSupportedAtLeast ==
    \E i \in 1..Len(supported) : AtLeast(supported[i], Declared(cmdArgs.StdinData))

\* the search in the declared order finds a supported version >= the declared
\* version: no entry before it fails to parse
SearchFinds ==
    \E i \in 1..Len(supported) :
        /\ AtLeast(supported[i], Declared(cmdArgs.StdinData))
        /\ \A j \in 1..(i - 1) : WellFormedVersion(supported[j])

\* C16 as the specification states it: the check handler is called only if the
\* declared version is >= 0.4.0, some supported version is >= the declared
\* version and the reconciler accepts the declared version; when the first
\* two hold and the reconciler rejects, the result is IncompatibleVersion
\* without the handler.
C16_AsStated ==
    CheckReached =>
        /\ handlerRet # NotCalled =>
             /\ AtLeast(Declared(cmdArgs.StdinData), V040)
             /\ SomeSupportedAtLeast
             /\ DeclaredIsSupported
        /\ (/\ AtLeast(Declared(cmdArgs.StdinData), V040)
            /\ SomeSupportedAtLeast
            /\ ~DeclaredIsSupported) =>
             /\ result.Code = ErrIncompatibleCNIVersion
             /\ handlerRet = NotCalled

\* C16, amended: the check handler is called only if the declared version is
\* >= 0.4.0, some supported version is >= the declared version and the
\* reconciler accepts the declared version; when the declared version is
\* >= 0.4.0, the search through the supported versions in their declared
\* order finds one >= the declared version with no malformed version before
\* it, and the reconciler rejects, the result is IncompatibleVersion (from the
\* reconciler) without the handler.
C16_ReconcilerAlsoDecides ==
    CheckReached =>
        /\ handlerRet # NotCalled =>
             /\ AtLeast(Declared(cmdArgs.StdinData), V040)
             /\ SomeSupportedAtLeast
             /\ DeclaredIsSupported
        /\ (/\ AtLeast(Declared(cmdArgs.StdinData), V040)
            /\ SearchFinds
            /\ ~DeclaredIsSupported) =>
             /\ result.Code = ErrIncompatibleCNIVersion
             /\ result.Msg = "incompatible CNI versions"
             /\ handlerRet = NotCalled
             /\ HasEvent("Check")
             /\ ~HasEvent("Call")

C16_Witness ==
    /\ CheckReached
    /\ pc = "returned"
    /\ Declared(cmdArgs.StdinData) = V040
    /\ supported = <<V030, V050>>
    /\ pluginVersion = V050
    /\ result.Code = ErrIncompatibleCNIVersion
    /\ trace[Len(trace)] = Event("Check", "")

\* C17: for CHECK a comparison that fails yields FailedDecode and not
\* IncompatibleVersion, without the check handler: a malformed declared
\* version fails at the comparison with the floor, and a malformed supported
\* version met in the declared order before any supported version >= the
\* declared one fails there, whatever comes after it in the list.
C17_MalformedIsDecodeFailure ==
    CheckReached =>
        /\ ~WellFormedVersion(Declared(cmdArgs.StdinData)) =>
             /\ result.Code = ErrFailedDecode
             /\ handlerRet = NotCalled
             /\ ~HasEvent("SupportedVersions")
             /\ trace[Len(trace)].op \in {"GreaterThanOrEqualTo", "Print stdout",
                                          "log.Print", "os.Exit"}
             /\ Cardinality(Positions("GreaterThanOrEqualTo")) = 1
        /\ AtLeast(Declared(cmdArgs.StdinData), V040) =>
             \A i \in 1..Len(supported) :
                (/\ ~WellFormedVersion(supported[i])
                 /\ \A j \in 1..(i - 1) :
                        /\ WellFormedVersion(supported[j])
                        /\ ~AtLeast(supported[j], Declared(cmdArgs.StdinData))) =>
                    /\ result.Code = ErrFailedDecode
                    /\ handlerRet = NotCalled
                    /\ ~HasEvent("Call")
                    /\ pluginVersion = supported[i]

C17_Witness ==
    /\ CheckReached
    /\ pc = "returned"
    /\ Declared(cmdArgs.StdinData) = V040
    /\ supported = <<VBad, V040>>
    /\ result.Code = ErrFailedDecode
    /\ handlerRet = NotCalled

\* C18: the about string is written only when CNI_COMMAND is empty and the
\* about string is not.  With CNI_COMMAND empty the missing list is exactly
\* CNI_COMMAND, whatever the other variables hold, and with an empty about
\* string the dispatcher returns that error; with CNI_COMMAND set and another
\* required variable empty the dispatcher returns MissingEnvironmentVariables
\* and writes nothing to the diagnostic stream, about string or not.
C18_AboutOnlyWithoutCommand ==
    /\ HasEvent("Fprintln stderr") => (Getenv["CNI_COMMAND"] = "" /\ about # "")
    /\ (Extracted /\ Getenv["CNI_COMMAND"] = "") =>
         /\ err = NewError(ErrMissingEnvironmentVariables,
                           "required env variables [CNI_COMMAND] missing", "")
         /\ (Returned /\ about = "") => result = err
         /\ (Returned /\ about # "") => result = NoError
    /\ (/\ Returned
        /\ Getenv["CNI_COMMAND"] \in DOMAIN RequiredBy
        /\ EmptyRequired(Getenv["CNI_COMMAND"]) # <<>>) =>
         /\ result.Code = ErrMissingEnvironmentVariables
         /\ result = err
         /\ ~HasEvent("Fprintln stderr")

C18_Witness ==
    /\ pc = "returned"
    /\ Getenv["CNI_COMMAND"] = "CHECK"
    /\ Getenv["CNI_NETNS"] = ""
    /\ Getenv["CNI_CONTAINERID"] # ""
    /\ about # ""
    /\ result = NewError(ErrMissingEnvironmentVariables,
                         "required env variables [CNI_NETNS] missing", "")
    /\ ~HasEvent("Fprintln stderr")

====
